---- MODULE Spec2Model ----
(***************************************************************************)
(* Model of the zq-platform backend services:                              *)
(*   core/dept/service.py     DeptService (department hierarchy)           *)
(*   core/message/service.py  MessageService, AnnouncementService          *)
(*                                                                         *)
(* A department row is a record; `path` is the materialized path string,   *)
(* kept as the sequence of its characters ("/" and one-character ids).     *)
(***************************************************************************)
EXTENDS Integers, Sequences, FiniteSets, TLC

\* ---------------------------------------------------------------- bounds
MaxDepts == 3
MaxSteps == 5
MaxBatch == 2

\* ------------------------------------------------------------ id universe
\* Primary keys are generated by the store; the n-th created row gets the
\* n-th id of the pool.  Ghost is an id a caller may pass that never names
\* a row.  None is Python's None, Empty the empty string.
IdPool == <<"a", "b", "c", "d", "e", "f">>
DeptIds == {IdPool[i] : i \in 1..MaxDepts}
Ghost == "x"
None == "None"
Empty == ""
Slash == "/"

VARIABLES depts, ndepts,     \* department rows, number of ids handed out
          msgs, nmsgs,       \* message rows
          anns, nanns,       \* announcement rows
          reads,             \* AnnouncementRead rows, in insertion order
          txn,               \* requests in flight: what each has read
          now,               \* the wall clock read by datetime.now()
          ret,               \* what the last operation returned
          steps,             \* operations served so far
          users              \* user rows, the id of a row is its position

vars == <<depts, ndepts, msgs, nmsgs, anns, nanns, reads, txn, now, ret, steps,
         users>>

\* A primary key that holds no row.
NoRow == [exists |-> FALSE, is_deleted |-> FALSE, parent_id |-> None,
          level |-> 0, path |-> <<>>]

\* The value an operation hands back to its caller.
NoRet == [op |-> "init", ok |-> FALSE, err |-> FALSE, a |-> None, b |-> None,
          m |-> 0, hard |-> FALSE, ids |-> <<>>, out |-> {}, n |-> 0,
          failed |-> <<>>, res |-> <<>>, unread |-> FALSE]

\* ------------------------------------------------------ message universe
MaxMsgs == 3
MaxTime == 2
MaxAnns == 2
MaxReadSteps == 4
MsgIds == 1..MaxMsgs
AnnIds == 1..MaxAnns
Users == {"u1", "u2"}
MsgTypes == {"system", "todo"}

\* A DateTime column holding NULL; clock readings are 1, 2, ...
NoTime == 0

NoMsg == [exists |-> FALSE, recipient_id |-> None, msg_type |-> None,
          status |-> None, read_at |-> NoTime, is_deleted |-> FALSE]

NoAnn == [exists |-> FALSE, status |-> None, publish_time |-> NoTime,
          publisher_id |-> None, is_deleted |-> FALSE, target_type |-> None,
          target_ids |-> {}, expire_time |-> NoTime, read_count |-> 0]

\* Concurrent requests, and a request that has read nothing yet.
Procs == {1, 2}
Idle == [pc |-> "idle", dept_id |-> None, new_parent_id |-> None,
         level |-> 0, path |-> <<>>]

\* Python truthiness of an Optional[str].
Truthy(s) == s # None /\ s # Empty

\* BaseService.get_by_id: the live (not soft-deleted) row with this id.
GetById(db, id) == id \in DeptIds /\ db[id].exists /\ ~db[id].is_deleted

\* `path or '/'`
PathOr(p) == IF p = <<>> THEN <<Slash>> ELSE p

\* f"{parent.path or '/'}{parent.id}/"
ChildPath(db, p) == PathOr(db[p].path) \o <<p, Slash>>

Allocated == {IdPool[i] : i \in 1..ndepts}

\* parent ids a caller can name: rows that exist or existed, an id that
\* never existed, None, or the empty string.
ParentInputs == Allocated \cup {Ghost, None, Empty}
RecordInputs == Allocated \cup {Ghost}

\* A partial update payload either leaves parent_id out or sets it.
Unset == "unset"

\* One more operation has been served.
Served ==
    /\ steps < MaxSteps
    /\ steps' = steps + 1

\* A department operation touches neither messages, announcements nor clock.
DeptServed ==
    /\ Served
    /\ UNCHANGED <<msgs, nmsgs, anns, nanns, reads, txn, now, users>>

\* create that forgets to add one to the parent's level.
CreateRow_SameLevel(db, parent_id) ==
    IF Truthy(parent_id) /\ GetById(db, parent_id)
    THEN [exists |-> TRUE, is_deleted |-> FALSE, parent_id |-> parent_id,
          level |-> db[parent_id].level,
          path |-> ChildPath(db, parent_id)]
    ELSE [exists |-> TRUE, is_deleted |-> FALSE, parent_id |-> parent_id,
          level |-> 0, path |-> <<Slash>>]

\* DeptService.create: the row that is inserted.
CreateRow(db, parent_id) ==
    IF Truthy(parent_id)
    THEN IF GetById(db, parent_id)
         THEN [exists |-> TRUE, is_deleted |-> FALSE, parent_id |-> parent_id,
               level |-> db[parent_id].level + 1,
               path |-> ChildPath(db, parent_id)]
         ELSE [exists |-> TRUE, is_deleted |-> FALSE, parent_id |-> parent_id,
               level |-> 0, path |-> <<Slash>>]
    ELSE [exists |-> TRUE, is_deleted |-> FALSE, parent_id |-> parent_id,
          level |-> 0, path |-> <<Slash>>]

Create(parent_id) ==
    /\ DeptServed
    /\ ndepts < MaxDepts
    /\ LET new == IdPool[ndepts + 1] IN
         /\ depts' = [depts EXCEPT ![new] = CreateRow(depts, parent_id)]
         /\ ret' = [NoRet EXCEPT !.op = "create", !.ok = TRUE, !.a = new,
                                 !.b = parent_id]
    /\ ndepts' = ndepts + 1

\* update that stores the new parent and path but keeps the old level.
UpdateRow_StaleLevel(db, id, parent_id) ==
    IF parent_id = Unset
    THEN db[id]
    ELSE IF Truthy(parent_id) /\ GetById(db, parent_id)
    THEN [db[id] EXCEPT !.parent_id = parent_id,
                        !.path = ChildPath(db, parent_id)]
    ELSE [db[id] EXCEPT !.parent_id = parent_id, !.level = 0,
                        !.path = <<Slash>>]

\* DeptService.update: the row after the update of a live record.
UpdateRow(db, id, parent_id) ==
    IF parent_id = Unset
    THEN db[id]
    ELSE IF Truthy(parent_id)
    THEN IF GetById(db, parent_id)
         THEN [db[id] EXCEPT !.parent_id = parent_id,
                             !.level = db[parent_id].level + 1,
                             !.path = ChildPath(db, parent_id)]
         ELSE [db[id] EXCEPT !.parent_id = parent_id, !.level = 0,
                             !.path = <<Slash>>]
    ELSE [db[id] EXCEPT !.parent_id = parent_id, !.level = 0,
                        !.path = <<Slash>>]

Update(id, parent_id) ==
    /\ DeptServed
    /\ IF GetById(depts, id)
       THEN /\ depts' = [depts EXCEPT ![id] = UpdateRow(depts, id, parent_id)]
            /\ ret' = [NoRet EXCEPT !.op = "update", !.ok = TRUE, !.a = id,
                                    !.b = parent_id]
       ELSE /\ depts' = depts
            /\ ret' = [NoRet EXCEPT !.op = "update", !.ok = FALSE, !.a = id,
                                    !.b = parent_id]
    /\ UNCHANGED ndepts

\* DeptService.get_children: live rows whose parent_id is the given id.
GetChildren(db, parent_id) ==
    {d \in DeptIds : db[d].exists /\ db[d].parent_id = parent_id /\ ~db[d].is_deleted}

\* SQL `column LIKE 'prefix%'` on a prefix without wildcard characters.
Like(s, prefix) ==
    /\ Len(prefix) <= Len(s)
    /\ \A i \in 1..Len(prefix) : s[i] = prefix[i]

\* get_descendants that matches the path exactly instead of as a prefix.
GetDescendants_Exact(db, id) ==
    IF ~GetById(db, id)
    THEN {}
    ELSE {d \in DeptIds : /\ db[d].exists
                          /\ db[d].path = ChildPath(db, id)
                          /\ ~db[d].is_deleted}

\* DeptService.get_descendants (as the set of ids of the rows returned).
GetDescendants(db, id) ==
    IF ~GetById(db, id)
    THEN {}
    ELSE {d \in DeptIds : /\ db[d].exists
                          /\ Like(db[d].path, ChildPath(db, id))
                          /\ ~db[d].is_deleted}

\* get_ancestors that returns the chain root first.
RECURSIVE Walk_RootFirst(_, _, _)
Walk_RootFirst(db, current, fuel) ==
    IF fuel = 0 \/ ~Truthy(db[current].parent_id)
    THEN <<>>
    ELSE IF GetById(db, db[current].parent_id)
         THEN Walk_RootFirst(db, db[current].parent_id, fuel - 1)
              \o <<db[current].parent_id>>
         ELSE <<>>

\* The loop of DeptService.get_ancestors, cut after `fuel` iterations.
RECURSIVE Walk(_, _, _)
Walk(db, current, fuel) ==
    IF fuel = 0 \/ ~Truthy(db[current].parent_id)
    THEN <<>>
    ELSE IF GetById(db, db[current].parent_id)
         THEN <<db[current].parent_id>> \o Walk(db, db[current].parent_id, fuel - 1)
         ELSE <<>>

\* A walk that appends more parents than there are rows repeats a row and
\* so never leaves the loop.
WalkFuel == MaxDepts + 1

\* DeptService.get_ancestors: ids of the ancestors, immediate parent first.
GetAncestors(db, id) ==
    IF GetById(db, id) THEN Walk(db, id, WalkFuel) ELSE <<>>

\* The while loop of get_ancestors does not terminate from this row.
Diverges(db, id) == Len(GetAncestors(db, id)) = WalkFuel

SeqRange(s) == {s[i] : i \in 1..Len(s)}

\* DeptService.move: "ok", "fail" (returns False) or "hang" (the ancestor
\* walk never returns).
MoveOutcome(db, dept_id, new_parent_id) ==
    IF ~GetById(db, dept_id) THEN "fail"
    ELSE IF ~Truthy(new_parent_id) THEN "ok"
    ELSE IF new_parent_id = dept_id THEN "fail"
    ELSE IF ~GetById(db, new_parent_id) THEN "fail"
    ELSE IF Diverges(db, new_parent_id) THEN "hang"
    ELSE IF dept_id \in SeqRange(GetAncestors(db, new_parent_id))
            \/ dept_id = new_parent_id THEN "fail"
    ELSE "ok"

\* move that takes the new parent's path as the path of the moved row.
MoveRow_ParentPath(db, dept_id, new_parent_id) ==
    IF Truthy(new_parent_id)
    THEN [db[dept_id] EXCEPT !.parent_id = new_parent_id,
                             !.level = db[new_parent_id].level + 1,
                             !.path = PathOr(db[new_parent_id].path)]
    ELSE [db[dept_id] EXCEPT !.parent_id = None, !.level = 0,
                             !.path = <<Slash>>]

\* The row written by a successful move.
MoveRow(db, dept_id, new_parent_id) ==
    IF Truthy(new_parent_id)
    THEN [db[dept_id] EXCEPT !.parent_id = new_parent_id,
                             !.level = db[new_parent_id].level + 1,
                             !.path = ChildPath(db, new_parent_id)]
    ELSE [db[dept_id] EXCEPT !.parent_id = None, !.level = 0,
                             !.path = <<Slash>>]

Move(dept_id, new_parent_id) ==
    /\ DeptServed
    /\ MoveOutcome(depts, dept_id, new_parent_id) # "hang"
    /\ IF MoveOutcome(depts, dept_id, new_parent_id) = "ok"
       THEN /\ depts' = [depts EXCEPT ![dept_id] = MoveRow(depts, dept_id, new_parent_id)]
            /\ ret' = [NoRet EXCEPT !.op = "move", !.ok = TRUE, !.a = dept_id,
                                    !.b = new_parent_id]
       ELSE /\ depts' = depts
            /\ ret' = [NoRet EXCEPT !.op = "move", !.ok = FALSE, !.a = dept_id,
                                    !.b = new_parent_id]
    /\ UNCHANGED ndepts

\* move whose ancestor walk loops for ever: nothing is written or returned.
MoveHangs(dept_id, new_parent_id) ==
    /\ DeptServed
    /\ MoveOutcome(depts, dept_id, new_parent_id) = "hang"
    /\ ret' = [NoRet EXCEPT !.op = "move_hangs", !.a = dept_id, !.b = new_parent_id]
    /\ UNCHANGED <<depts, ndepts>>

\* can_delete that counts soft-deleted rows as children only.
CanDelete_Unchecked(db, id) ==
    {d \in DeptIds : db[d].exists /\ db[d].parent_id = id /\ db[d].is_deleted} = {}

\* DeptService.can_delete: allowed iff there is no live direct child.
CanDelete(db, id) == GetChildren(db, id) = {}

\* BaseService.delete: False when the id has no live row; otherwise the row
\* is removed (hard) or flagged deleted (soft).
DeleteOk(db, id) == GetById(db, id)

DeleteDb(db, id, hard) ==
    IF ~GetById(db, id) THEN db
    ELSE IF hard THEN [db EXCEPT ![id] = NoRow]
    ELSE [db EXCEPT ![id].is_deleted = TRUE]

\* One iteration of the loop of DeptService.batch_delete.
BatchDeleteStep(st, id, hard) ==
    IF CanDelete(st.db, id)
    THEN IF DeleteOk(st.db, id)
         THEN [db |-> DeleteDb(st.db, id, hard),
               success_count |-> st.success_count + 1,
               failed_ids |-> st.failed_ids]
         ELSE [st EXCEPT !.failed_ids = Append(st.failed_ids, id)]
    ELSE [st EXCEPT !.failed_ids = Append(st.failed_ids, id)]

\* batch_delete that leaves the loop at the first id it cannot delete.
RECURSIVE BatchDeleteRun_StopOnFailure(_, _, _, _)
BatchDeleteRun_StopOnFailure(db, ids, hard, k) ==
    IF k = 0
    THEN [db |-> db, success_count |-> 0, failed_ids |-> <<>>]
    ELSE LET st == BatchDeleteRun_StopOnFailure(db, ids, hard, k - 1)
         IN IF st.failed_ids # <<>> THEN st
            ELSE BatchDeleteStep(st, ids[k], hard)

\* The state of the loop after its first k iterations.
RECURSIVE BatchDeleteRun(_, _, _, _)
BatchDeleteRun(db, ids, hard, k) ==
    IF k = 0
    THEN [db |-> db, success_count |-> 0, failed_ids |-> <<>>]
    ELSE BatchDeleteStep(BatchDeleteRun(db, ids, hard, k - 1), ids[k], hard)

BatchInputs == UNION {[1..k -> RecordInputs] : k \in 0..MaxBatch}

BatchDelete(ids, hard) ==
    /\ DeptServed
    /\ LET st == BatchDeleteRun(depts, ids, hard, Len(ids)) IN
         /\ depts' = st.db
         /\ ret' = [NoRet EXCEPT !.op = "batch_delete", !.ok = TRUE, !.ids = ids,
                                 !.hard = hard, !.n = st.success_count,
                                 !.failed = st.failed_ids]
    /\ UNCHANGED ndepts

\* Read-only operations: the caller sees the returned value.
CanDeleteOp(id) ==
    /\ DeptServed
    /\ ret' = [NoRet EXCEPT !.op = "can_delete", !.ok = CanDelete(depts, id), !.a = id]
    /\ UNCHANGED <<depts, ndepts>>

GetDescendantsOp(id) ==
    /\ DeptServed
    /\ ret' = [NoRet EXCEPT !.op = "get_descendants", !.ok = TRUE, !.a = id,
                            !.out = GetDescendants(depts, id)]
    /\ UNCHANGED <<depts, ndepts>>

\* A caller of get_ancestors sees the chain, unless the walk never returns.
GetAncestorsOp(id) ==
    /\ DeptServed
    /\ ret' = IF Diverges(depts, id)
              THEN [NoRet EXCEPT !.op = "get_ancestors_hangs", !.a = id]
              ELSE [NoRet EXCEPT !.op = "get_ancestors", !.ok = TRUE, !.a = id,
                                 !.ids = GetAncestors(depts, id)]
    /\ UNCHANGED <<depts, ndepts>>

\* The store is empty after construction.
Init ==
    /\ depts = [i \in DeptIds |-> NoRow]
    /\ ndepts = 0
    /\ msgs = [m \in MsgIds |-> NoMsg]
    /\ nmsgs = 0
    /\ anns = [x \in AnnIds |-> NoAnn]
    /\ nanns = 0
    /\ reads = <<>>
    /\ txn = [p \in Procs |-> Idle]
    /\ now = 1
    /\ ret = NoRet
    /\ steps = 0
    /\ users = <<>>

DeptNext ==
    \/ \E p \in ParentInputs : Create(p)
    \/ \E id \in RecordInputs, p \in ParentInputs \cup {Unset} : Update(id, p)
    \/ \E id \in RecordInputs, p \in ParentInputs : Move(id, p)
    \/ \E id \in RecordInputs, p \in ParentInputs : MoveHangs(id, p)
    \/ \E ids \in BatchInputs, hard \in BOOLEAN : BatchDelete(ids, hard)
    \/ \E id \in RecordInputs : CanDeleteOp(id)
    \/ \E id \in RecordInputs : GetDescendantsOp(id)
    \/ \E id \in RecordInputs : GetAncestorsOp(id)

\* ----------------------------------------------------------------- search
\* Names and codes are sequences of characters. The department with the
\* n-th id is created with these; a code may be left out (NULL).
NoCode == <<"NULL">>
DeptName(id) ==
    CASE id = "a" -> <<"O", "p", "s">>
      [] id = "b" -> <<"P", "o">>
      [] id = "c" -> <<"L", "a", "b">>
      [] OTHER -> <<"n">>
DeptCode(id) ==
    CASE id = "a" -> <<"A", "1">>
      [] id = "c" -> <<"o", "p">>
      [] OTHER -> NoCode

\* Keywords a caller searches for; the first is the empty string.
Keywords == {<<>>, <<"o", "p">>, <<"a">>, <<"z">>}

\* Case folding of ILIKE.
Lower(c) ==
    CASE c = "A" -> "a" [] c = "L" -> "l" [] c = "O" -> "o" [] c = "P" -> "p"
      [] OTHER -> c
LowerAll(s) == [i \in 1..Len(s) |-> Lower(s[i])]

\* column ILIKE '%keyword%' for a keyword without wildcard characters; NULL
\* matches nothing.
ILike(column, keyword) ==
    /\ column # NoCode
    /\ \E i \in 0..(Len(column) - Len(keyword)) :
         SubSeq(LowerAll(column), i + 1, i + Len(keyword)) = LowerAll(keyword)

\* The first query of search: live rows whose name or code matches.
MatchedDepts(db, keyword) ==
    {d \in DeptIds : /\ db[d].exists
                     /\ (ILike(DeptName(d), keyword) \/ ILike(DeptCode(d), keyword))
                     /\ ~db[d].is_deleted}

\* dept_ids_to_include: the matched rows and their ancestors.
IdsToInclude(db, keyword) ==
    MatchedDepts(db, keyword)
    \cup UNION {SeqRange(GetAncestors(db, d)) : d \in MatchedDepts(db, keyword)}

\* all_depts: the second query keeps the live rows among them.
AllDepts(db, keyword) ==
    {d \in IdsToInclude(db, keyword) : db[d].exists /\ ~db[d].is_deleted}

\* DeptService.search: the roots and, per included department, the ids in
\* its children list. A walk that never returns leaves the caller waiting.
Search(keyword) ==
    /\ DeptServed
    /\ UNCHANGED <<depts, ndepts>>
    /\ ret' =
         IF keyword = <<>>
         THEN [NoRet EXCEPT !.op = "search", !.ok = TRUE, !.ids = keyword,
                            !.res = [d \in {} |-> {}]]
         ELSE IF \E d \in MatchedDepts(depts, keyword) : Diverges(depts, d)
         THEN [NoRet EXCEPT !.op = "search_hangs", !.ids = keyword]
         ELSE [NoRet EXCEPT
                 !.op = "search", !.ok = TRUE, !.ids = keyword,
                 !.out = {d \in AllDepts(depts, keyword) : depts[d].parent_id = None},
                 !.res = [p \in AllDepts(depts, keyword) |->
                            {d \in AllDepts(depts, keyword) :
                               depts[d].parent_id # None /\ depts[d].parent_id = p}]]

DeptSearchNext ==
    \/ \E p \in ParentInputs : Create(p)
    \/ \E id \in RecordInputs, p \in ParentInputs \cup {Unset} : Update(id, p)
    \/ \E id \in RecordInputs, p \in ParentInputs : Move(id, p)
    \/ \E id \in RecordInputs, p \in ParentInputs : MoveHangs(id, p)
    \/ \E ids \in BatchInputs, hard \in BOOLEAN : BatchDelete(ids, hard)
    \/ \E keyword \in Keywords : Search(keyword)

DeptSearchSpec == Init /\ [][DeptSearchNext]_vars

\* ------------------------------------------------------ concurrent moves
\* Two requests run move at the same time, each on its own session. A
\* request first reads (the two get_by_id and the ancestor walk) and checks,
\* then assigns parent_id, level and path on the object it loaded, and its
\* commit writes them to the row.
ConcFrame == UNCHANGED <<msgs, nmsgs, anns, nanns, reads, now, users>>

\* The reads and checks of request p. A rejected move returns at once; a
\* walk over a parent_id cycle never returns and the request stays stuck.
MoveBegin(p, dept_id, new_parent_id) ==
    /\ Served
    /\ ConcFrame
    /\ txn[p].pc = "idle"
    /\ UNCHANGED <<depts, ndepts>>
    /\ LET outcome == MoveOutcome(depts, dept_id, new_parent_id)
           row == MoveRow(depts, dept_id, new_parent_id)
       IN  /\ txn' = [txn EXCEPT ![p] =
                        IF outcome = "ok"
                        THEN [pc |-> "write", dept_id |-> dept_id,
                              new_parent_id |-> row.parent_id,
                              level |-> row.level, path |-> row.path]
                        ELSE IF outcome = "hang"
                        THEN [Idle EXCEPT !.pc = "hang"]
                        ELSE Idle]
           /\ ret' = IF outcome = "fail"
                     THEN [NoRet EXCEPT !.op = "move", !.ok = FALSE,
                                        !.a = dept_id, !.b = new_parent_id]
                     ELSE ret

\* commit that checks the guard again on the rows as they are now and
\* writes nothing when it no longer passes.
CommitRow_Recheck(db, t) ==
    IF MoveOutcome(db, t.dept_id, t.new_parent_id) = "ok"
    THEN [db[t.dept_id] EXCEPT !.parent_id = t.new_parent_id,
                               !.level = t.level, !.path = t.path]
    ELSE db[t.dept_id]

\* The row after db.commit(): the three assigned attributes are written
\* as the request computed them, whatever the row holds by now.
CommitRow(db, t) ==
    [db[t.dept_id] EXCEPT !.parent_id = t.new_parent_id,
                          !.level = t.level, !.path = t.path]

\* The commit of request p and its return.
MoveCommit(p) ==
    /\ txn[p].pc = "write"
    /\ ConcFrame
    /\ depts' = [depts EXCEPT ![txn[p].dept_id] = CommitRow(depts, txn[p])]
    /\ txn' = [txn EXCEPT ![p] = Idle]
    /\ ret' = [NoRet EXCEPT !.op = "move", !.ok = TRUE, !.a = txn[p].dept_id,
                            !.b = txn[p].new_parent_id, !.m = p]
    /\ UNCHANGED <<ndepts, steps>>

DeptConcNext ==
    \/ \E parent_id \in ParentInputs : Create(parent_id)
    \/ \E p \in Procs, id \in RecordInputs, parent_id \in ParentInputs :
         MoveBegin(p, id, parent_id)
    \/ \E p \in Procs : MoveCommit(p)

DeptConcSpec == Init /\ [][DeptConcNext]_vars

\* ------------------------------------------------------- claim vocabulary
\* Row d is stored and not soft-deleted.
Live(db, d) == d \in DeptIds /\ db[d].exists /\ ~db[d].is_deleted

\* s begins with t.
StartsWith(s, t) == Len(s) >= Len(t) /\ SubSeq(s, 1, Len(t)) = t

\* The rows reached from d by following parent_id between 1 and k times
\* without leaving the set of rows `through`.
RECURSIVE Up(_, _, _, _)
Up(db, d, k, through) ==
    IF k = 0 \/ db[d].parent_id \notin through
    THEN {}
    ELSE {db[d].parent_id} \cup Up(db, db[d].parent_id, k - 1, through)

Stored == {d \in DeptIds : depts[d].exists}
LiveNow == {d \in DeptIds : Live(depts, d)}

\* This step served the operation `op`.
Returned(op) == steps' = steps + 1 /\ ret'.op = op

\* This step served a call move(A, B), whether or not it returned.
MoveCalled(A, B) ==
    /\ steps' = steps + 1
    /\ ret'.op \in {"move", "move_hangs"}
    /\ ret'.a = A
    /\ ret'.b = B

\* C1: every department has level 0 iff its parent_id is null, and otherwise
\* its level is its parent's level plus one and its path is the parent's path
\* followed by the parent's id and "/".
C1_LevelPathFollowParent ==
    \A d \in DeptIds : Live(depts, d) =>
        /\ (depts[d].level = 0) <=> (depts[d].parent_id = None)
        /\ depts[d].parent_id # None =>
             /\ depts[d].parent_id \in DeptIds
             /\ depts[depts[d].parent_id].exists
             /\ depts[d].level = depts[depts[d].parent_id].level + 1
             /\ depts[d].path = depts[depts[d].parent_id].path
                                   \o <<depts[d].parent_id, Slash>>

\* C2: the parent_id relation is acyclic: no department is reached from
\* itself by following parent_id one or more times.
C2_ParentAcyclic ==
    \A d \in DeptIds : depts[d].exists => d \notin Up(depts, d, MaxDepts, Stored)

\* C3: move(A, B) returns failure and changes no department whenever A does
\* not exist, B equals A, B is non-empty and does not resolve, or A is in the
\* ancestor chain of B.
C3_IllegalMoveRejected ==
    [][\A A \in RecordInputs, B \in ParentInputs :
         (/\ MoveCalled(A, B)
          /\ \/ ~Live(depts, A)
             \/ B = A
             \/ Truthy(B) /\ ~Live(depts, B)
             \/ Live(depts, B) /\ A \in Up(depts, B, MaxDepts, LiveNow))
         => (Returned("move") /\ ~ret'.ok /\ depts' = depts)]_vars

\* C4: a successful move(A, B) leaves A with parent_id B, level B.level + 1
\* and path B.path + B.id + "/"; with B empty A becomes a root with level 0
\* and path "/".  With root R, child C of R and grandchild G of C, move(G, R)
\* succeeds and gives G level 1 and path "/R/", and move(R, G) fails.
IsFamily(R, C, G) ==
    /\ Live(depts, R) /\ Live(depts, C) /\ Live(depts, G)
    /\ depts[R].parent_id = None /\ depts[R].level = 0 /\ depts[R].path = <<Slash>>
    /\ depts[C].parent_id = R /\ depts[C].level = 1
    /\ depts[C].path = <<Slash, R, Slash>>
    /\ depts[G].parent_id = C /\ depts[G].level = 2
    /\ depts[G].path = <<Slash, R, Slash, C, Slash>>

C4_MoveRecomputes ==
    [][/\ (Returned("move") /\ ret'.ok) =>
            IF Truthy(ret'.b)
            THEN /\ depts'[ret'.a].parent_id = ret'.b
                 /\ depts'[ret'.a].level = depts'[ret'.b].level + 1
                 /\ depts'[ret'.a].path = depts'[ret'.b].path \o <<ret'.b, Slash>>
            ELSE /\ depts'[ret'.a].parent_id = None
                 /\ depts'[ret'.a].level = 0
                 /\ depts'[ret'.a].path = <<Slash>>
       /\ \A R \in DeptIds, C \in DeptIds, G \in DeptIds : IsFamily(R, C, G) =>
            /\ MoveCalled(G, R) =>
                 /\ Returned("move") /\ ret'.ok
                 /\ depts'[G].level = 1
                 /\ depts'[G].path = <<Slash, R, Slash>>
            /\ MoveCalled(R, G) =>
                 Returned("move") /\ ~ret'.ok /\ depts' = depts]_vars

\* G has just been moved from under its parent C to C's parent R.
C4_Witness ==
    /\ ret.op = "move" /\ ret.ok
    /\ \E C \in DeptIds :
         /\ C # ret.a /\ Live(depts, C) /\ Live(depts, ret.a)
         /\ depts[C].parent_id = ret.b /\ depts[C].level = 1
         /\ depts[ret.a].parent_id = ret.b /\ depts[ret.a].level = 1
         /\ depts[ret.a].path = <<Slash, ret.b, Slash>>
         /\ depts[ret.b].parent_id = None

\* C5: create gives the new department level parent.level + 1 and path
\* parent.path + parent.id + "/" when parent_id resolves, and level 0 and
\* path "/" when parent_id is absent or does not resolve; so R without
\* parent, C under R and G under C get levels 0, 1, 2 and paths "/", "/R/",
\* "/R/C/".
C5_CreateComputes ==
    [][Returned("create") =>
         /\ depts'[ret'.a].parent_id = ret'.b
         /\ IF Live(depts, ret'.b)
            THEN /\ depts'[ret'.a].level = depts[ret'.b].level + 1
                 /\ depts'[ret'.a].path = depts[ret'.b].path \o <<ret'.b, Slash>>
            ELSE /\ depts'[ret'.a].level = 0
                 /\ depts'[ret'.a].path = <<Slash>>
         /\ \A R \in DeptIds, C \in DeptIds :
              (/\ Live(depts, R) /\ Live(depts, C)
               /\ depts[R].level = 0 /\ depts[R].path = <<Slash>>
               /\ depts[C].parent_id = R /\ depts[C].level = 1
               /\ depts[C].path = <<Slash, R, Slash>>)
              => /\ ret'.b = R => /\ depts'[ret'.a].level = 1
                                  /\ depts'[ret'.a].path = <<Slash, R, Slash>>
                 /\ ret'.b = C => /\ depts'[ret'.a].level = 2
                                  /\ depts'[ret'.a].path = <<Slash, R, Slash, C, Slash>>]_vars

\* G has just been created under C, itself created under the root R.
C5_Witness ==
    /\ ret.op = "create"
    /\ depts[ret.a].level = 2
    /\ \E R \in DeptIds :
         /\ depts[ret.a].path = <<Slash, R, Slash, ret.b, Slash>>
         /\ depts[R].level = 0 /\ depts[R].parent_id = None
         /\ depts[ret.b].level = 1 /\ depts[ret.b].parent_id = R

\* C6: deleting a department that has a live direct child fails (can_delete
\* refuses, batch_delete reports the id in failed_ids and leaves the row
\* undeleted); deleting a live department without live direct child
\* succeeds.
HasLiveChild(db, id) ==
    \E d \in DeptIds : Live(db, d) /\ db[d].parent_id = id

C6_DeleteBlockedByChildren ==
    [][/\ Returned("can_delete") => (HasLiveChild(depts, ret'.a) => ~ret'.ok)
       /\ Returned("batch_delete") =>
            /\ \A k \in 1..Len(ret'.ids) :
                 LET pre == BatchDeleteRun(depts, ret'.ids, ret'.hard, k - 1)
                     post == BatchDeleteRun(depts, ret'.ids, ret'.hard, k)
                     id == ret'.ids[k]
                 IN /\ HasLiveChild(pre.db, id) =>
                         /\ post.failed_ids = Append(pre.failed_ids, id)
                         /\ post.success_count = pre.success_count
                         /\ post.db = pre.db
                    /\ (Live(pre.db, id) /\ ~HasLiveChild(pre.db, id)) =>
                         /\ post.failed_ids = pre.failed_ids
                         /\ post.success_count = pre.success_count + 1
                         /\ ~Live(post.db, id)
            /\ LET end == BatchDeleteRun(depts, ret'.ids, ret'.hard, Len(ret'.ids))
               IN /\ depts' = end.db
                  /\ ret'.failed = end.failed_ids
                  /\ ret'.n = end.success_count
            /\ (Len(ret'.ids) = 1 /\ HasLiveChild(depts, ret'.ids[1])) =>
                  /\ ret'.failed = ret'.ids /\ ret'.n = 0 /\ depts' = depts
            /\ (Len(ret'.ids) = 1 /\ Live(depts, ret'.ids[1])
                  /\ ~HasLiveChild(depts, ret'.ids[1])) =>
                  /\ ret'.failed = <<>> /\ ret'.n = 1
                  /\ ~Live(depts', ret'.ids[1])]_vars

\* A batch has just refused a parent and deleted a childless department.
C6_Witness ==
    /\ ret.op = "batch_delete"
    /\ Len(ret.ids) = 2 /\ ret.n = 1 /\ Len(ret.failed) = 1
    /\ HasLiveChild(depts, ret.failed[1])
    /\ Live(depts, ret.failed[1])
    /\ \E k \in 1..2 : ret.ids[k] # ret.failed[1] /\ ~Live(depts, ret.ids[k])

\* C7: for an existing department D get_descendants returns exactly the
\* non-deleted departments whose path starts with D.path + D.id + "/", at
\* any depth; for a missing D it returns nothing.
C7_DescendantsByPathPrefix ==
    ret.op = "get_descendants" =>
        IF Live(depts, ret.a)
        THEN ret.out = {d \in DeptIds :
                          /\ Live(depts, d)
                          /\ StartsWith(depts[d].path,
                                        depts[ret.a].path \o <<ret.a, Slash>>)}
        ELSE ret.out = {}

\* The descendants returned include a child and a grandchild.
C7_Witness ==
    /\ ret.op = "get_descendants"
    /\ \E c \in ret.out, g \in ret.out :
         /\ depts[c].parent_id = ret.a
         /\ depts[g].parent_id = c
         /\ Len(depts[g].path) > Len(depts[c].path)

\* C15: update leaves parent_id, level and path alone when the payload has
\* no parent_id; with parent_id it stores it and recomputes level and path
\* as create does; for a record id that does not resolve it returns None and
\* changes nothing; no other department is ever modified.
C15_UpdateFrame ==
    [][Returned("update") =>
         IF ~Live(depts, ret'.a)
         THEN ~ret'.ok /\ depts' = depts
         ELSE /\ ret'.ok
              /\ \A d \in DeptIds : d # ret'.a => depts'[d] = depts[d]
              /\ depts'[ret'.a].exists /\ ~depts'[ret'.a].is_deleted
              /\ IF ret'.b = Unset
                 THEN depts'[ret'.a] = depts[ret'.a]
                 ELSE /\ depts'[ret'.a].parent_id = ret'.b
                      /\ depts'[ret'.a].level = CreateRow(depts, ret'.b).level
                      /\ depts'[ret'.a].path = CreateRow(depts, ret'.b).path]_vars

\* A department has just been re-parented by update under a level-1 parent.
C15_Witness ==
    /\ ret.op = "update" /\ ret.ok
    /\ Live(depts, ret.b) /\ ret.b # ret.a
    /\ depts[ret.b].level = 1
    /\ depts[ret.a].parent_id = ret.b
    /\ depts[ret.a].level = 2
    /\ depts[ret.a].path = depts[ret.b].path \o <<ret.b, Slash>>

\* C16: batch_delete handles every listed id: each one is counted in
\* success_count or appended to failed_ids, an id that is blocked or not
\* found is appended and no row changes on its turn, and an id that can be
\* deleted is deleted whatever failed before it.
C16_BatchDeleteCollectsFailures ==
    [][Returned("batch_delete") =>
         /\ ret'.n + Len(ret'.failed) = Len(ret'.ids)
         /\ SeqRange(ret'.failed) \subseteq SeqRange(ret'.ids)
         /\ \A id \in SeqRange(ret'.ids) :
              /\ id \in SeqRange(ret'.failed) \/ ~Live(depts', id)
              /\ ~Live(depts, id) => id \in SeqRange(ret'.failed)
         /\ \A d \in DeptIds : d \notin SeqRange(ret'.ids) => depts'[d] = depts[d]
         /\ \A k \in 1..Len(ret'.ids) :
              \A pre \in {BatchDeleteRun(depts, ret'.ids, ret'.hard, k - 1)},
                 post \in {BatchDeleteRun(depts, ret'.ids, ret'.hard, k)},
                 id \in {ret'.ids[k]} :
                 IF HasLiveChild(pre.db, id) \/ ~Live(pre.db, id)
                 THEN /\ post.failed_ids = Append(pre.failed_ids, id)
                      /\ post.success_count = pre.success_count
                      /\ post.db = pre.db
                 ELSE /\ post.failed_ids = pre.failed_ids
                      /\ post.success_count = pre.success_count + 1
                      /\ ~Live(post.db, id)
                      /\ \A d \in DeptIds : d # id => post.db[d] = pre.db[d]
         /\ \A end \in {BatchDeleteRun(depts, ret'.ids, ret'.hard, Len(ret'.ids))} :
               depts' = end.db /\ ret'.failed = end.failed_ids
                               /\ ret'.n = end.success_count]_vars

\* The first id of a batch failed and the second was deleted all the same.
C16_Witness ==
    /\ ret.op = "batch_delete"
    /\ Len(ret.ids) = 2 /\ ret.ids[1] # ret.ids[2]
    /\ ret.failed = <<ret.ids[1]>> /\ ret.n = 1
    /\ ret.ids[2] \in DeptIds /\ ~Live(depts, ret.ids[2])

\* C18: the walk of get_ancestors up parent_id ends for every department in
\* every state reached by create, update and move.
C18_AncestorWalkTerminates ==
    \A d \in DeptIds : ~Diverges(depts, d)

DeptSpec == Init /\ [][DeptNext]_vars

\* ========================================================= MessageService
\* A message operation touches neither departments nor announcements.
MsgServed ==
    /\ Served
    /\ UNCHANGED <<depts, ndepts, anns, nanns, reads, txn, now, users>>

\* Message ids a caller can name: the rows created so far and 0, an id that
\* names no row.
MsgInputs == 0..nmsgs

\* a message whose read_at is stamped when it is created.
NewMsg_Stamped(recipient_id, msg_type) ==
    [exists |-> TRUE, recipient_id |-> recipient_id, msg_type |-> msg_type,
     status |-> "unread", read_at |-> 1, is_deleted |-> FALSE]

\* Message(...): the column defaults give status "unread", read_at NULL and
\* is_deleted False.
NewMsg(recipient_id, msg_type) ==
    [exists |-> TRUE, recipient_id |-> recipient_id, msg_type |-> msg_type,
     status |-> "unread", read_at |-> NoTime, is_deleted |-> FALSE]

\* get_by_id that finds a non-deleted message whoever its recipient is.
MsgGetById_AnyRecipient(db, message_id, user_id) ==
    /\ message_id \in MsgIds
    /\ db[message_id].exists
    /\ ~db[message_id].is_deleted

\* MessageService.get_by_id: the non-deleted message m of recipient u.
MsgGetById(db, message_id, user_id) ==
    /\ message_id \in MsgIds
    /\ db[message_id].exists
    /\ db[message_id].recipient_id = user_id
    /\ ~db[message_id].is_deleted

\* A caller of MessageService.get_by_id: the message or None.
MsgGetByIdOp(message_id, user_id) ==
    /\ MsgServed
    /\ ret' = [NoRet EXCEPT !.op = "get_by_id", !.m = message_id, !.b = user_id,
                            !.ok = MsgGetById(msgs, message_id, user_id)]
    /\ UNCHANGED <<msgs, nmsgs>>

\* mark_as_read that stamps the message on every call.
MarkAsReadDb_Restamp(db, message_id, user_id, t) ==
    IF ~MsgGetById(db, message_id, user_id) THEN db
    ELSE [db EXCEPT ![message_id].status = "read", ![message_id].read_at = t]

\* MessageService.mark_as_read: the rows after the call at clock reading t.
MarkAsReadDb(db, message_id, user_id, t) ==
    IF ~MsgGetById(db, message_id, user_id) THEN db
    ELSE IF db[message_id].status = "unread"
    THEN [db EXCEPT ![message_id].status = "read", ![message_id].read_at = t]
    ELSE db

MarkAsRead(message_id, user_id) ==
    /\ MsgServed
    /\ msgs' = MarkAsReadDb(msgs, message_id, user_id, now)
    /\ ret' = [NoRet EXCEPT !.op = "mark_as_read", !.m = message_id,
                            !.b = user_id,
                            !.ok = MsgGetById(msgs, message_id, user_id)]
    /\ UNCHANGED nmsgs

\* mark_all_as_read whose WHERE clause lost the status condition.
MarkAllTargets_AnyStatus(db, user_id, msg_type) ==
    {m \in MsgIds : /\ db[m].exists
                    /\ db[m].recipient_id = user_id
                    /\ ~db[m].is_deleted
                    /\ Truthy(msg_type) => db[m].msg_type = msg_type}

\* The rows matched by the UPDATE of MessageService.mark_all_as_read.
MarkAllTargets(db, user_id, msg_type) ==
    {m \in MsgIds : /\ db[m].exists
                    /\ db[m].recipient_id = user_id
                    /\ db[m].status = "unread"
                    /\ ~db[m].is_deleted
                    /\ Truthy(msg_type) => db[m].msg_type = msg_type}

MarkAllAsRead(user_id, msg_type) ==
    /\ MsgServed
    /\ msgs' = [m \in MsgIds |->
                  IF m \in MarkAllTargets(msgs, user_id, msg_type)
                  THEN [msgs[m] EXCEPT !.status = "read", !.read_at = now]
                  ELSE msgs[m]]
    /\ ret' = [NoRet EXCEPT !.op = "mark_all_as_read", !.ok = TRUE, !.b = user_id,
                            !.a = msg_type,
                            !.n = Cardinality(MarkAllTargets(msgs, user_id, msg_type))]
    /\ UNCHANGED nmsgs

\* MessageService.delete (soft delete).
MsgDelete(message_id, user_id) ==
    /\ MsgServed
    /\ msgs' = IF MsgGetById(msgs, message_id, user_id)
               THEN [msgs EXCEPT ![message_id].is_deleted = TRUE]
               ELSE msgs
    /\ ret' = [NoRet EXCEPT !.op = "delete", !.m = message_id, !.b = user_id,
                            !.ok = MsgGetById(msgs, message_id, user_id)]
    /\ UNCHANGED nmsgs

\* delete_all_read whose WHERE clause lost the recipient condition.
DeleteAllReadTargets_AnyRecipient(db, user_id) ==
    {m \in MsgIds : /\ db[m].exists
                    /\ db[m].status = "read"
                    /\ ~db[m].is_deleted}

\* The rows matched by the UPDATE of MessageService.delete_all_read.
DeleteAllReadTargets(db, user_id) ==
    {m \in MsgIds : /\ db[m].exists
                    /\ db[m].recipient_id = user_id
                    /\ db[m].status = "read"
                    /\ ~db[m].is_deleted}

DeleteAllRead(user_id) ==
    /\ MsgServed
    /\ msgs' = [m \in MsgIds |->
                  IF m \in DeleteAllReadTargets(msgs, user_id)
                  THEN [msgs[m] EXCEPT !.is_deleted = TRUE]
                  ELSE msgs[m]]
    /\ ret' = [NoRet EXCEPT !.op = "delete_all_read", !.ok = TRUE, !.b = user_id,
                            !.n = Cardinality(DeleteAllReadTargets(msgs, user_id))]
    /\ UNCHANGED nmsgs

\* MessageService.create_message
CreateMessage(recipient_id, msg_type) ==
    /\ MsgServed
    /\ nmsgs < MaxMsgs
    /\ msgs' = [msgs EXCEPT ![nmsgs + 1] = NewMsg(recipient_id, msg_type)]
    /\ nmsgs' = nmsgs + 1
    /\ ret' = [NoRet EXCEPT !.op = "create_message", !.ok = TRUE,
                            !.m = nmsgs + 1, !.b = recipient_id]

\* MessageService.batch_create_messages: one message per listed recipient.
RecipientLists == UNION {[1..k -> Users] : k \in 0..MaxBatch}

\* The rows after the committed inserts, n rows being there before.
BatchCreated(db, n, recipient_ids, msg_type) ==
    [m \in MsgIds |->
       IF m > n /\ m <= n + Len(recipient_ids)
       THEN NewMsg(recipient_ids[m - n], msg_type)
       ELSE db[m]]

BatchCreateMessages(recipient_ids, msg_type) ==
    /\ MsgServed
    /\ nmsgs + Len(recipient_ids) <= MaxMsgs
    /\ msgs' = BatchCreated(msgs, nmsgs, recipient_ids, msg_type)
    /\ nmsgs' = nmsgs + Len(recipient_ids)
    /\ ret' = [NoRet EXCEPT !.op = "batch_create_messages", !.ok = TRUE,
                            !.ids = recipient_ids, !.n = Len(recipient_ids)]

\* Time passes between two operations.
Tick ==
    /\ now < MaxTime
    /\ now' = now + 1
    /\ UNCHANGED <<depts, ndepts, msgs, nmsgs, anns, nanns, reads, txn,
                   ret, steps, users>>

MsgNext ==
    \/ \E u \in Users, t \in MsgTypes : CreateMessage(u, t)
    \/ \E us \in RecipientLists, t \in MsgTypes : BatchCreateMessages(us, t)
    \/ \E m \in MsgInputs, u \in Users : MsgGetByIdOp(m, u)
    \/ \E m \in MsgInputs, u \in Users : MarkAsRead(m, u)
    \/ \E u \in Users, t \in MsgTypes \cup {None} : MarkAllAsRead(u, t)
    \/ \E m \in MsgInputs, u \in Users : MsgDelete(m, u)
    \/ \E u \in Users : DeleteAllRead(u)
    \/ Tick

MsgSpec == Init /\ [][MsgNext]_vars

\* C8: mark_as_read is idempotent: a second call on the same message by its
\* recipient returns success and leaves status "read" and read_at as the
\* first call set them.
C8_MarkAsReadIdempotent ==
    [][(/\ Returned("mark_as_read")
        /\ MsgGetById(msgs, ret'.m, ret'.b)
        /\ msgs[ret'.m].status = "read")
       => /\ ret'.ok
          /\ msgs'[ret'.m].status = "read"
          /\ msgs'[ret'.m].read_at = msgs[ret'.m].read_at
          /\ msgs' = msgs]_vars

\* The recipient has marked again, at a later time, a message already read.
C8_Witness ==
    /\ ret.op = "mark_as_read" /\ ret.ok
    /\ ret.m \in MsgIds
    /\ msgs[ret.m].status = "read"
    /\ msgs[ret.m].read_at # NoTime
    /\ msgs[ret.m].read_at < now

\* C9: a message goes from unread to read at most once: once read it is
\* never unread again and its read_at is never overwritten.
C9_ReadOnce ==
    [][\A m \in MsgIds :
         (msgs[m].exists /\ msgs[m].status = "read")
         => /\ msgs'[m].exists
            /\ msgs'[m].status = "read"
            /\ msgs'[m].read_at = msgs[m].read_at]_vars

\* A message read earlier has survived a later bulk mark-read of its
\* recipient that stamped another message.
C9_Witness ==
    /\ ret.op = "mark_all_as_read" /\ ret.n > 0
    /\ \E m \in MsgIds, k \in MsgIds :
         /\ msgs[m].recipient_id = ret.b /\ msgs[k].recipient_id = ret.b
         /\ msgs[m].status = "read" /\ msgs[k].status = "read"
         /\ msgs[m].read_at # NoTime
         /\ msgs[m].read_at < msgs[k].read_at

\* ==================================================== AnnouncementService
\* An announcement operation touches neither departments nor messages.
AnnServed ==
    /\ Served
    /\ UNCHANGED <<depts, ndepts, msgs, nmsgs, txn, now, users>>

\* Announcement ids a caller can name: rows created so far and 0, no row.
AnnInputs == 0..nanns

\* Values a caller can put under "status" and "publish_time" in the data
\* dict; Unset is a missing key (or, for update, a None value).
StatusInputs == {Unset, "draft", "published", "expired"}
TimeInputs == {NoTime, now}

\* AnnouncementService.get_by_id: the non-deleted announcement.
AnnGetById(db, announcement_id) ==
    /\ announcement_id \in AnnIds
    /\ db[announcement_id].exists
    /\ ~db[announcement_id].is_deleted

\* AnnouncementService.create: the row built from the data dict; the
\* creator is recorded as publisher and read_count starts at its default 0.
AnnCreateWith(status, publish_time, target_type, target_ids, expire_time, user_id) ==
    /\ AnnServed
    /\ nanns < MaxAnns
    /\ anns' = [anns EXCEPT ![nanns + 1] =
                  [exists |-> TRUE,
                   status |-> IF status = Unset THEN "draft" ELSE status,
                   publish_time |-> publish_time,
                   publisher_id |-> user_id,
                   is_deleted |-> FALSE,
                   target_type |-> IF target_type = Unset THEN "all" ELSE target_type,
                   target_ids |-> target_ids,
                   expire_time |-> expire_time,
                   read_count |-> 0]]
    /\ nanns' = nanns + 1
    /\ ret' = [NoRet EXCEPT !.op = "ann_create", !.ok = TRUE, !.m = nanns + 1,
                            !.b = user_id]
    /\ UNCHANGED reads

\* create whose data names neither an audience nor an expiry: target_type
\* defaults to "all", target_ids to [], expire_time to None.
AnnCreate(status, publish_time, user_id) ==
    AnnCreateWith(status, publish_time, Unset, {}, NoTime, user_id)

\* AnnouncementService.update: every field present and not None is stored.
AnnUpdate(announcement_id, status, publish_time, user_id) ==
    /\ AnnServed
    /\ anns' = IF AnnGetById(anns, announcement_id)
               THEN [anns EXCEPT ![announcement_id] =
                       [@ EXCEPT !.status = IF status = Unset THEN @ ELSE status,
                                 !.publish_time = IF publish_time = NoTime THEN @
                                                  ELSE publish_time]]
               ELSE anns
    /\ ret' = [NoRet EXCEPT !.op = "ann_update", !.m = announcement_id,
                            !.b = user_id,
                            !.ok = AnnGetById(anns, announcement_id)]
    /\ UNCHANGED <<nanns, reads>>

\* AnnouncementService.delete (soft delete).
AnnDelete(announcement_id, user_id) ==
    /\ AnnServed
    /\ anns' = IF AnnGetById(anns, announcement_id)
               THEN [anns EXCEPT ![announcement_id].is_deleted = TRUE]
               ELSE anns
    /\ ret' = [NoRet EXCEPT !.op = "ann_delete", !.m = announcement_id,
                            !.b = user_id,
                            !.ok = AnnGetById(anns, announcement_id)]
    /\ UNCHANGED <<nanns, reads>>

\* publish that accepts an announcement in any status.
PublishRaises_Never(db, announcement_id) == FALSE

\* AnnouncementService.publish raises ValueError for a found announcement
\* that is not a draft.
PublishRaises(db, announcement_id) ==
    /\ AnnGetById(db, announcement_id)
    /\ db[announcement_id].status # "draft"

\* AnnouncementService.publish: returns None for a missing announcement,
\* raises for a non-draft, otherwise publishes at the current time.
Publish(announcement_id, user_id) ==
    /\ AnnServed
    /\ IF ~AnnGetById(anns, announcement_id)
       THEN /\ anns' = anns
            /\ ret' = [NoRet EXCEPT !.op = "publish", !.m = announcement_id,
                                    !.b = user_id]
       ELSE IF PublishRaises(anns, announcement_id)
       THEN /\ anns' = anns
            /\ ret' = [NoRet EXCEPT !.op = "publish", !.m = announcement_id,
                                    !.b = user_id, !.err = TRUE]
       ELSE /\ anns' = [anns EXCEPT ![announcement_id].status = "published",
                                    ![announcement_id].publish_time = now,
                                    ![announcement_id].publisher_id = user_id]
            /\ ret' = [NoRet EXCEPT !.op = "publish", !.m = announcement_id,
                                    !.b = user_id, !.ok = TRUE]
    /\ UNCHANGED <<nanns, reads>>

\* mark_as_read whose lookup never finds the earlier record.
AlreadyRead_Never(rs, announcement_id, user_id) == FALSE

\* The lookup of AnnouncementService.mark_as_read for an existing record of
\* this (announcement, user) pair.
AlreadyRead(rs, announcement_id, user_id) ==
    \E i \in 1..Len(rs) : /\ rs[i].announcement_id = announcement_id
                          /\ rs[i].user_id = user_id

\* AnnouncementService.mark_as_read: the first read of a found announcement
\* inserts a record and adds one to read_count.
AnnMarkAsRead(announcement_id, user_id) ==
    /\ AnnServed
    /\ IF AnnGetById(anns, announcement_id)
          /\ ~AlreadyRead(reads, announcement_id, user_id)
       THEN /\ reads' = Append(reads, [announcement_id |-> announcement_id,
                                       user_id |-> user_id, read_at |-> now])
            /\ anns' = [anns EXCEPT ![announcement_id].read_count = @ + 1]
       ELSE UNCHANGED <<anns, reads>>
    /\ ret' = [NoRet EXCEPT !.op = "ann_mark_as_read", !.m = announcement_id,
                            !.b = user_id,
                            !.ok = AnnGetById(anns, announcement_id)]
    /\ UNCHANGED nanns

AnnNext ==
    \/ \E s \in StatusInputs, t \in TimeInputs, u \in Users : AnnCreate(s, t, u)
    \/ \E x \in AnnInputs, s \in StatusInputs, t \in TimeInputs, u \in Users :
         AnnUpdate(x, s, t, u)
    \/ \E x \in AnnInputs, u \in Users : AnnDelete(x, u)
    \/ \E x \in AnnInputs, u \in Users : Publish(x, u)
    \/ Tick

AnnSpec == Init /\ [][AnnNext]_vars

\* C10: publish on a draft sets status "published" and sets publish_time;
\* publish on a non-draft raises and leaves status, publish_time and
\* publisher_id as they were; publish on a missing announcement returns None
\* and changes nothing.
C10_PublishGuarded ==
    [][Returned("publish") =>
         IF ~(ret'.m \in AnnIds /\ anns[ret'.m].exists /\ ~anns[ret'.m].is_deleted)
         THEN ~ret'.ok /\ ~ret'.err /\ anns' = anns
         ELSE IF anns[ret'.m].status = "draft"
         THEN /\ ret'.ok /\ ~ret'.err
              /\ anns'[ret'.m].status = "published"
              /\ anns'[ret'.m].publish_time = now
              /\ anns'[ret'.m].publish_time # NoTime
         ELSE /\ ret'.err /\ ~ret'.ok
              /\ anns'[ret'.m].status = anns[ret'.m].status
              /\ anns'[ret'.m].publish_time = anns[ret'.m].publish_time
              /\ anns'[ret'.m].publisher_id = anns[ret'.m].publisher_id
              /\ anns' = anns]_vars

\* A second publish, later and by another user, has been refused.
C10_Witness ==
    /\ ret.op = "publish" /\ ret.err
    /\ anns[ret.m].status = "published"
    /\ anns[ret.m].publish_time # NoTime
    /\ anns[ret.m].publish_time < now
    /\ anns[ret.m].publisher_id # ret.b

\* ------------------------------------------------------- notifications
\* The channels argument of NotifyService.send: left out (None) or a list.
NoChannels == [given |-> FALSE, list |-> <<>>]
ChannelInputs ==
    {NoChannels} \cup
    {[given |-> TRUE, list |-> l] :
       l \in {<<>>, <<"site">>, <<"email">>, <<"site", "email">>,
              <<"email", "site">>, <<"site", "site">>}}

\* channels defaults to ["site"].
ChannelsOr(channels) == IF channels.given THEN channels.list ELSE <<"site">>

\* results[channel] = value
Put(results, channel, value) ==
    [c \in DOMAIN results \cup {channel} |->
       IF c = channel THEN value ELSE results[c]]

\* One turn of the loop over channels on the state r: raised tells whether
\* batch_create_messages raises on this turn (its commit fails, nothing is
\* stored).
SendStep(r, recipient_ids, msg_type, channel, raised) ==
    IF channel = "site" /\ ~raised
    THEN [msgs |-> BatchCreated(r.msgs, r.nmsgs, recipient_ids, msg_type),
          nmsgs |-> r.nmsgs + Len(recipient_ids),
          results |-> Put(r.results, "site", TRUE),
          aborted |-> FALSE]
    ELSE [r EXCEPT !.results = Put(r.results, channel, FALSE)]

\* send without the try/except around a channel: the first failure ends
\* the loop.
RECURSIVE SendRun_AbortOnFailure(_, _, _, _, _, _, _)
SendRun_AbortOnFailure(db, n, recipient_ids, msg_type, channels, raises, k) ==
    IF k = 0
    THEN [msgs |-> db, nmsgs |-> n, results |-> [c \in {} |-> FALSE],
          aborted |-> FALSE]
    ELSE LET r == SendRun_AbortOnFailure(db, n, recipient_ids, msg_type,
                                         channels, raises, k - 1)
         IN  IF r.aborted THEN r
             ELSE IF channels[k] # "site" \/ k \in raises
             THEN [r EXCEPT !.aborted = TRUE]
             ELSE SendStep(r, recipient_ids, msg_type, channels[k], FALSE)

\* The loop of NotifyService.send over the first k channels; raises is the
\* set of turns on which batch_create_messages raises.
RECURSIVE SendRun(_, _, _, _, _, _, _)
SendRun(db, n, recipient_ids, msg_type, channels, raises, k) ==
    IF k = 0
    THEN [msgs |-> db, nmsgs |-> n, results |-> [c \in {} |-> FALSE],
          aborted |-> FALSE]
    ELSE SendStep(SendRun(db, n, recipient_ids, msg_type, channels, raises, k - 1),
                  recipient_ids, msg_type, channels[k], k \in raises)

\* The turns of the loop that call batch_create_messages.
SiteTurns(list) == {i \in 1..Len(list) : list[i] = "site"}

\* NotifyService.send
Send(recipient_ids, channels, msg_type, raises) ==
    LET list == ChannelsOr(channels)
        r == SendRun(msgs, nmsgs, recipient_ids, msg_type, list, raises, Len(list))
    IN  /\ MsgServed
        /\ raises \subseteq SiteTurns(list)
        /\ nmsgs + Len(recipient_ids) * Cardinality(SiteTurns(list) \ raises)
             <= MaxMsgs
        /\ msgs' = r.msgs
        /\ nmsgs' = r.nmsgs
        /\ ret' = [NoRet EXCEPT !.op = "send", !.ok = channels.given,
                                !.ids = list, !.out = raises,
                                !.n = Len(recipient_ids), !.res = r.results]

NotifyNext ==
    \E us \in RecipientLists, ch \in ChannelInputs, t \in MsgTypes :
      \E raises \in SUBSET SiteTurns(ChannelsOr(ch)) : Send(us, ch, t, raises)

NotifySpec == Init /\ [][NotifyNext]_vars

\* ------------------------------------------- audiences and read tracking
\* Department and role ids of the callers: the HTTP layer passes the
\* caller's own department ids and role ids next to the user id.
UserDeptIds(u) == IF u = "u1" THEN {"d1"} ELSE {"d2"}
UserRoleIds(u) == IF u = "u1" THEN {"r1"} ELSE {}

\* The users who write and withdraw announcements in the read-tracking runs.
Authors == {"u2"}

\* (target_type, target_ids) pairs a creator can choose; some list ids of
\* another kind than the type names.
AudienceInputs ==
    { <<Unset, {}>>, <<"dept", {"d1"}>>, <<"role", {"r1"}>>, <<"user", {"u1"}>>,
      <<"user", {"d1", "r1"}>> }

\* create with an explicit audience and expiry.
AnnCreateTargeted(status, audience, expire_time, user_id) ==
    AnnCreateWith(status, NoTime, audience[1], audience[2], expire_time, user_id)

\* the base filter without the expiry condition.
Eligible_NoExpiry(db, t) ==
    {x \in AnnIds : /\ db[x].exists
                    /\ db[x].status = "published"
                    /\ ~db[x].is_deleted}

\* The base conditions of get_user_announcements and get_unread_count:
\* published, not deleted, and not expired at clock reading t.
Eligible(db, t) ==
    {x \in AnnIds : /\ db[x].exists
                    /\ db[x].status = "published"
                    /\ ~db[x].is_deleted
                    /\ (db[x].expire_time = NoTime \/ db[x].expire_time > t)}

\* audience filter that forgets the target_type of the department branch.
TargetMatch_AnyType(row, user_id, user_dept_ids, user_role_ids) ==
    \/ row.target_type = "all"
    \/ \E dept_id \in user_dept_ids : dept_id \in row.target_ids
    \/ \E role_id \in user_role_ids :
         row.target_type = "role" /\ role_id \in row.target_ids
    \/ row.target_type = "user" /\ user_id \in row.target_ids

\* The OR of target conditions; json_contains(target_ids, '"id"') holds iff
\* the id is an element of the JSON array.
TargetMatch(row, user_id, user_dept_ids, user_role_ids) ==
    \/ row.target_type = "all"
    \/ \E dept_id \in user_dept_ids :
         row.target_type = "dept" /\ dept_id \in row.target_ids
    \/ \E role_id \in user_role_ids :
         row.target_type = "role" /\ role_id \in row.target_ids
    \/ row.target_type = "user" /\ user_id \in row.target_ids

\* The announcement ids the user has a read record for.
ReadIds(rs, user_id) ==
    {rs[i].announcement_id : i \in {j \in 1..Len(rs) : rs[j].user_id = user_id}}

\* The rows selected by get_user_announcements.
UserAnnouncements(db, rs, t, user_id, user_dept_ids, user_role_ids, unread_only) ==
    {x \in Eligible(db, t) :
       /\ TargetMatch(db[x], user_id, user_dept_ids, user_role_ids)
       /\ unread_only => x \notin ReadIds(rs, user_id)}

\* AnnouncementService.get_user_announcements, first page (page_size 20 is
\* more than the rows in the table): the items and the total.
GetUserAnnouncements(user_id, user_dept_ids, user_role_ids, unread_only) ==
    /\ AnnServed
    /\ ret' = [NoRet EXCEPT
                 !.op = "get_user_announcements", !.ok = TRUE, !.b = user_id,
                 !.unread = unread_only,
                 !.out = UserAnnouncements(anns, reads, now, user_id, user_dept_ids,
                                           user_role_ids, unread_only),
                 !.n = Cardinality(UserAnnouncements(anns, reads, now, user_id,
                                     user_dept_ids, user_role_ids, unread_only))]
    /\ UNCHANGED <<anns, nanns, reads>>

\* get_unread_count that forgets to leave out what the user has read.
UnreadCount_AllVisible(db, rs, t, user_id, user_dept_ids, user_role_ids) ==
    Cardinality({x \in Eligible(db, t) :
                   TargetMatch(db[x], user_id, user_dept_ids, user_role_ids)})

\* The number get_unread_count computes at clock reading t.
UnreadCount(db, rs, t, user_id, user_dept_ids, user_role_ids) ==
    Cardinality({x \in Eligible(db, t) :
                   /\ TargetMatch(db[x], user_id, user_dept_ids, user_role_ids)
                   /\ x \notin ReadIds(rs, user_id)})

\* AnnouncementService.get_unread_count
GetUnreadCount(user_id, user_dept_ids, user_role_ids) ==
    /\ AnnServed
    /\ ret' = [NoRet EXCEPT
                 !.op = "get_unread_count", !.ok = TRUE, !.b = user_id,
                 !.n = UnreadCount(anns, reads, now, user_id, user_dept_ids,
                                   user_role_ids)]
    /\ UNCHANGED <<anns, nanns, reads>>

\* The read-tracking runs serve at most MaxReadSteps operations.
ReadBudget == steps < MaxReadSteps

AnnReadNext ==
    \/ \E s \in {Unset, "published"}, aud \in AudienceInputs,
          e \in {NoTime, now + 1}, u \in Authors :
         ReadBudget /\ AnnCreateTargeted(s, aud, e, u)
    \/ \E x \in AnnInputs, u \in Authors : ReadBudget /\ AnnDelete(x, u)
    \/ \E x \in AnnInputs, u \in Users : ReadBudget /\ AnnMarkAsRead(x, u)
    \/ \E u \in Users, unread_only \in BOOLEAN :
         ReadBudget /\ GetUserAnnouncements(u, UserDeptIds(u), UserRoleIds(u),
                                            unread_only)
    \/ \E u \in Users :
         ReadBudget /\ GetUnreadCount(u, UserDeptIds(u), UserRoleIds(u))
    \/ Tick

AnnReadSpec == Init /\ [][AnnReadNext]_vars

\* ------------------------------------------------------ concurrent reads
\* Two requests run mark_as_read at the same time, each on its own session.
\* A request first loads the announcement and looks for an existing record,
\* then adds the record and assigns read_count on the object it loaded; its
\* commit sends the INSERT and the UPDATE with the value it computed.
ReadFrame == UNCHANGED <<depts, ndepts, msgs, nmsgs, now, users>>

\* The reads of request p. A missing announcement returns False and an
\* existing record returns True at once.
ReadBegin(p, announcement_id, user_id) ==
    /\ Served
    /\ ReadFrame
    /\ txn[p].pc = "idle"
    /\ UNCHANGED <<anns, nanns, reads>>
    /\ IF AnnGetById(anns, announcement_id)
          /\ ~AlreadyRead(reads, announcement_id, user_id)
       THEN /\ txn' = [txn EXCEPT ![p] =
                         [pc |-> "commit", announcement_id |-> announcement_id,
                          user_id |-> user_id, read_at |-> now,
                          read_count |-> anns[announcement_id].read_count + 1]]
            /\ ret' = ret
       ELSE /\ txn' = txn
            /\ ret' = [NoRet EXCEPT !.op = "ann_mark_as_read",
                                    !.m = announcement_id, !.b = user_id,
                                    !.ok = AnnGetById(anns, announcement_id)]

\* The commit of request p. The unique index on (announcement_id, user_id)
\* refuses a second record of the pair: the commit raises and the
\* transaction, record and count, is rolled back.
ReadCommit(p) ==
    /\ txn[p].pc = "commit"
    /\ ReadFrame
    /\ IF AlreadyRead(reads, txn[p].announcement_id, txn[p].user_id)
       THEN /\ UNCHANGED <<anns, reads>>
            /\ ret' = [NoRet EXCEPT !.op = "ann_mark_as_read", !.err = TRUE,
                                    !.m = txn[p].announcement_id,
                                    !.b = txn[p].user_id]
       ELSE /\ reads' = Append(reads, [announcement_id |-> txn[p].announcement_id,
                                       user_id |-> txn[p].user_id,
                                       read_at |-> txn[p].read_at])
            /\ anns' = [anns EXCEPT
                          ![txn[p].announcement_id].read_count = txn[p].read_count]
            /\ ret' = [NoRet EXCEPT !.op = "ann_mark_as_read", !.ok = TRUE,
                                    !.m = txn[p].announcement_id,
                                    !.b = txn[p].user_id]
    /\ txn' = [txn EXCEPT ![p] = Idle]
    /\ UNCHANGED <<nanns, steps>>

AnnConcNext ==
    \/ \E s \in {Unset, "published"}, u \in Authors : AnnCreate(s, NoTime, u)
    \/ \E p \in Procs, x \in AnnInputs, u \in Users : ReadBegin(p, x, u)
    \/ \E p \in Procs : ReadCommit(p)

AnnConcSpec == Init /\ [][AnnConcNext]_vars

\* ------------------------------------------------------------------ users
\* The user handlers of core/user/api.py. A request field that is left out
\* is None; an email or mobile may also be the empty string.
MaxUsers == 3
NoUser == 0
Usernames == {"n1", "n2"}
Emails == {Empty, "e1"}
Mobiles == {Empty, "m1"}

UserCreateInputs == [username : Usernames, email : Emails, mobile : Mobiles]
UserUpdateInputs ==
    [username : Usernames \cup {None}, email : {None, "e1"}, mobile : {None, "m1"}]
UserProfileInputs == [username : {None}, email : Emails, mobile : {None, "m1"}]
UserIdInputs == 0..MaxUsers

\* UserService.check_unique: no user other than exclude_id holds the value.
CheckUnique(db, field, value, exclude_id) ==
    \A i \in 1..Len(db) : i # exclude_id => db[i][field] # value

\* UserService.create and UserService.update; update writes the fields that
\* were set and returns None for a missing id.
UserExists(db, user_id) == user_id \in 1..Len(db)
UserCreateRow(db, data) == Append(db, data)
UserUpdateRow(db, user_id, data) ==
    [db EXCEPT ![user_id] =
       [f \in DOMAIN data |-> IF data[f] # None THEN data[f] ELSE @[f]]]

\* The checks of create_user: the username always, the email and the mobile
\* when given.
CreateUserConflict(db, data) ==
    \/ ~CheckUnique(db, "username", data.username, NoUser)
    \/ Truthy(data.email) /\ ~CheckUnique(db, "email", data.email, NoUser)
    \/ Truthy(data.mobile) /\ ~CheckUnique(db, "mobile", data.mobile, NoUser)

\* The checks of update_user, each when the field is given, excluding the
\* user being updated.
UpdateUserConflict_NoMobile(db, user_id, data) ==
    \/ Truthy(data.username)
       /\ ~CheckUnique(db, "username", data.username, user_id)
    \/ Truthy(data.email) /\ ~CheckUnique(db, "email", data.email, user_id)

UpdateUserConflict(db, user_id, data) ==
    \/ Truthy(data.username)
       /\ ~CheckUnique(db, "username", data.username, user_id)
    \/ Truthy(data.email) /\ ~CheckUnique(db, "email", data.email, user_id)
    \/ Truthy(data.mobile) /\ ~CheckUnique(db, "mobile", data.mobile, user_id)

\* The checks of update_user_profile: email and mobile only.
UpdateUserProfileConflict(db, user_id, data) ==
    \/ Truthy(data.email) /\ ~CheckUnique(db, "email", data.email, user_id)
    \/ Truthy(data.mobile) /\ ~CheckUnique(db, "mobile", data.mobile, user_id)

UserFrame == UNCHANGED <<depts, ndepts, msgs, nmsgs, anns, nanns, reads, now>>
AllIdle == \A p \in Procs : txn[p].pc = "idle"
InFlight == Cardinality({p \in Procs : txn[p].pc = "insert"})

\* create_user served with no other request in between its checks and its
\* insert.
CreateUser(data) ==
    /\ Served
    /\ UserFrame
    /\ AllIdle
    /\ CreateUserConflict(users, data) \/ Len(users) < MaxUsers
    /\ txn' = txn
    /\ IF CreateUserConflict(users, data)
       THEN /\ users' = users
            /\ ret' = [NoRet EXCEPT !.op = "create_user", !.err = TRUE, !.n = 400]
       ELSE /\ users' = UserCreateRow(users, data)
            /\ ret' = [NoRet EXCEPT !.op = "create_user", !.ok = TRUE,
                                    !.m = Len(users) + 1]

\* update_user and update_user_profile: the checks, then UserService.update,
\* whose None is answered with 404.
UpdateWith(op, conflict, user_id, data) ==
    /\ Served
    /\ UserFrame
    /\ AllIdle
    /\ txn' = txn
    /\ IF conflict
       THEN /\ users' = users
            /\ ret' = [NoRet EXCEPT !.op = op, !.err = TRUE, !.n = 400,
                                    !.m = user_id]
       ELSE IF ~UserExists(users, user_id)
       THEN /\ users' = users
            /\ ret' = [NoRet EXCEPT !.op = op, !.err = TRUE, !.n = 404,
                                    !.m = user_id]
       ELSE /\ users' = UserUpdateRow(users, user_id, data)
            /\ ret' = [NoRet EXCEPT !.op = op, !.ok = TRUE, !.m = user_id]

UpdateUser(user_id, data) ==
    UpdateWith("update_user", UpdateUserConflict(users, user_id, data),
               user_id, data)

UpdateUserProfile(user_id, data) ==
    UpdateWith("update_user_profile",
               UpdateUserProfileConflict(users, user_id, data), user_id, data)

\* Two create_user requests at the same time. The checks of request p run
\* first; a request that passes them holds its data until its insert.
CreateCheck(p, data) ==
    /\ Served
    /\ UserFrame
    /\ txn[p].pc = "idle"
    /\ users' = users
    /\ IF CreateUserConflict(users, data)
       THEN /\ txn' = txn
            /\ ret' = [NoRet EXCEPT !.op = "create_user", !.err = TRUE, !.n = 400]
       ELSE /\ Len(users) + InFlight < MaxUsers
            /\ txn' = [txn EXCEPT ![p] = [pc |-> "insert", data |-> data]]
            /\ ret' = ret

\* The insert of request p. Whether the table has unique indexes is not
\* decided by the handlers: on a duplicate the insert either goes through
\* or raises.
CreateInsert(p) ==
    /\ txn[p].pc = "insert"
    /\ UserFrame
    /\ \E raised \in {FALSE} \cup
                     (IF CreateUserConflict(users, txn[p].data) THEN {TRUE} ELSE {}) :
         IF raised
         THEN /\ users' = users
              /\ ret' = [NoRet EXCEPT !.op = "create_user", !.err = TRUE, !.n = 500]
         ELSE /\ users' = UserCreateRow(users, txn[p].data)
              /\ ret' = [NoRet EXCEPT !.op = "create_user", !.ok = TRUE,
                                      !.m = Len(users) + 1]
    /\ txn' = [txn EXCEPT ![p] = Idle]
    /\ UNCHANGED steps

UserNext ==
    \/ \E data \in UserCreateInputs : CreateUser(data)
    \/ \E id \in UserIdInputs, data \in UserUpdateInputs : UpdateUser(id, data)
    \/ \E id \in UserIdInputs, data \in UserProfileInputs :
         UpdateUserProfile(id, data)
    \/ \E p \in Procs, data \in UserCreateInputs : CreateCheck(p, data)
    \/ \E p \in Procs : CreateInsert(p)

UserSpec == Init /\ [][UserNext]_vars

\* C11: draft -> published is one-way: an announcement that is published
\* never has status "draft" again.
C11_PublishedNeverDraft ==
    [][\A x \in AnnIds :
         (anns[x].exists /\ anns[x].status = "published")
         => anns'[x].status # "draft"]_vars

\* The records of announcement x, and of the pair (x, u).
ReadsOf(rs, x) == {i \in 1..Len(rs) : rs[i].announcement_id = x}
ReadsOfPair(rs, x, u) == {i \in ReadsOf(rs, x) : rs[i].user_id = u}

\* C12: with sequential mark_as_read calls there is at most one
\* AnnouncementRead record per (announcement, user) and read_count counts
\* one per pair: the first read inserts a record and adds one, a repeated
\* read inserts nothing and leaves read_count alone.
C12_ReadOncePerPair ==
    [][/\ \A x \in AnnIds :
            /\ \A u \in Users : Cardinality(ReadsOfPair(reads', x, u)) <= 1
            /\ anns'[x].read_count = Cardinality(ReadsOf(reads', x))
       /\ Returned("ann_mark_as_read") =>
            IF ReadsOfPair(reads, ret'.m, ret'.b) # {}
            THEN reads' = reads /\ anns' = anns
            ELSE IF ret'.m \in AnnIds /\ anns[ret'.m].exists
                    /\ ~anns[ret'.m].is_deleted
            THEN /\ ret'.ok
                 /\ Len(reads') = Len(reads) + 1
                 /\ Cardinality(ReadsOfPair(reads', ret'.m, ret'.b)) = 1
                 /\ anns'[ret'.m].read_count = anns[ret'.m].read_count + 1
            ELSE ~ret'.ok /\ reads' = reads /\ anns' = anns]_vars

\* A user has marked again, later, an announcement two users have read.
C12_Witness ==
    /\ ret.op = "ann_mark_as_read" /\ ret.ok
    /\ anns[ret.m].read_count = 2
    /\ \E i \in 1..Len(reads) :
         /\ reads[i].announcement_id = ret.m
         /\ reads[i].user_id = ret.b
         /\ reads[i].read_at < now

\* The announcements that are published, not deleted and not expired in
\* the state an operation started from.
Current(x) ==
    /\ anns[x].exists
    /\ anns[x].status = "published"
    /\ ~anns[x].is_deleted
    /\ ~(anns[x].expire_time # NoTime /\ anns[x].expire_time <= now)

\* The audience of announcement x includes user u, by the claim's four cases.
InAudience(x, u) ==
    \/ anns[x].target_type = "all"
    \/ anns[x].target_type = "dept" /\ anns[x].target_ids \cap UserDeptIds(u) # {}
    \/ anns[x].target_type = "role" /\ anns[x].target_ids \cap UserRoleIds(u) # {}
    \/ anns[x].target_type = "user" /\ u \in anns[x].target_ids

\* C13: get_user_announcements (listing read and unread alike) returns a
\* published, unexpired, undeleted announcement to a user exactly when its
\* target_type is "all", or "dept" with a department of the user in
\* target_ids, or "role" with a role of the user in target_ids, or "user"
\* with the user's id in target_ids.
C13_VisibleIffTargeted ==
    [][(Returned("get_user_announcements") /\ ~ret'.unread) =>
         \A x \in AnnIds :
           Current(x) => (x \in ret'.out <=> InAudience(x, ret'.b))]_vars

\* A department announcement for d1 is listed for the user of d1, and the
\* next listing, by the user of d2, leaves it out.
C13_Witness ==
    /\ ret.op = "get_user_announcements"
    /\ ~ret.unread
    /\ ret.b = "u1"
    /\ \E x \in ret.out : anns[x].target_type = "dept" /\ anns[x].target_ids = {"d1"}
    /\ \E y \in AnnIds \ ret.out :
         /\ anns[y].exists /\ anns[y].status = "published" /\ ~anns[y].is_deleted
         /\ anns[y].expire_time = NoTime
         /\ anns[y].target_type = "user" /\ "d1" \in anns[y].target_ids

\* The unread announcements of user u in the state an operation started from.
UnreadFor(u) ==
    {x \in AnnIds : Current(x) /\ InAudience(x, u) /\ ReadsOfPair(reads, x, u) = {}}

\* C14: get_user_announcements never returns, and get_unread_count never
\* counts, an announcement that is a draft, soft-deleted, or whose
\* expire_time is set and not after the current time, whatever its stored
\* status says.
C14_HiddenWhenDraftDeletedExpired ==
    [][/\ Returned("get_user_announcements") =>
            \A x \in ret'.out :
              /\ anns[x].exists
              /\ anns[x].status # "draft"
              /\ ~anns[x].is_deleted
              /\ ~(anns[x].expire_time # NoTime /\ anns[x].expire_time <= now)
       /\ Returned("get_unread_count") =>
            ret'.n = Cardinality(UnreadFor(ret'.b))]_vars

\* The count is 0 while an announcement for everyone, unread and not
\* deleted, has passed its expire_time with status still "published".
C14_Witness ==
    /\ ret.op = "get_unread_count"
    /\ ret.n = 0
    /\ \E x \in AnnIds :
         /\ anns[x].exists /\ anns[x].status = "published" /\ ~anns[x].is_deleted
         /\ anns[x].target_type = "all"
         /\ anns[x].expire_time # NoTime /\ anns[x].expire_time <= now
    /\ \E y \in AnnIds : anns[y].exists /\ anns[y].is_deleted

\* A call of one of the three operations that name a message and a user.
ScopedCall ==
    Returned("get_by_id") \/ Returned("mark_as_read") \/ Returned("delete")

\* C19: mark_as_read(m, u), delete(m, u) and get_by_id(m, u) act only on a
\* non-deleted message whose recipient is u: otherwise they return
\* failure/None and no message's status, read_at or is_deleted changes; on
\* the recipient's own message they succeed and touch no other message.
C19_ScopedByRecipient ==
    [][ScopedCall =>
         IF /\ ret'.m \in MsgIds
            /\ msgs[ret'.m].exists
            /\ msgs[ret'.m].recipient_id = ret'.b
            /\ ~msgs[ret'.m].is_deleted
         THEN ret'.ok /\ \A k \in MsgIds \ {ret'.m} : msgs'[k] = msgs[k]
         ELSE ~ret'.ok /\ msgs' = msgs]_vars

\* A user who is not the recipient has tried to delete an unread message
\* of somebody else, and it is still there, unread.
C19_Witness ==
    /\ ret.op = "delete" /\ ~ret.ok
    /\ ret.m \in MsgIds
    /\ msgs[ret.m].exists
    /\ msgs[ret.m].recipient_id # ret.b
    /\ ~msgs[ret.m].is_deleted
    /\ msgs[ret.m].status = "unread"
    /\ \E k \in MsgIds : msgs[k].exists /\ msgs[k].is_deleted

\* The last turn of the loop that handled channel c.
LastTurn(list, c) ==
    CHOOSE i \in 1..Len(list) :
      list[i] = c /\ \A j \in (i + 1)..Len(list) : list[j] # c

\* C20: send returns a result map with one entry per requested channel and
\* never aborts on a channel failure: "site" maps to true when the inbox
\* messages were created and to false when their creation raised (the last
\* attempt decides when "site" is listed twice), any other channel maps to
\* false, and every listed channel is attempted whatever failed before it:
\* each "site" turn that does not raise stores one message per recipient.
C20_SendReportsPerChannel ==
    [][Returned("send") =>
         LET list == ret'.ids
             raises == ret'.out
         IN  /\ DOMAIN ret'.res = {list[i] : i \in 1..Len(list)}
             /\ \A c \in DOMAIN ret'.res :
                  ret'.res[c] = (c = "site" /\ LastTurn(list, c) \notin raises)
             /\ nmsgs' = nmsgs + ret'.n * Cardinality(SiteTurns(list) \ raises)
             /\ \A m \in MsgIds : m <= nmsgs => msgs'[m] = msgs[m]
             /\ \A m \in MsgIds : (m > nmsgs /\ m <= nmsgs') =>
                  msgs'[m].exists /\ msgs'[m].status = "unread"]_vars

\* A send over an unimplemented channel and then "site" has reported the
\* first as failed and still delivered the inbox messages.
C20_Witness ==
    /\ ret.op = "send"
    /\ ret.ids = <<"email", "site">>
    /\ ret.res = [c \in {"email", "site"} |-> c = "site"]
    /\ ret.n = 2
    /\ nmsgs >= 2

\* C17: two concurrent moves whose read-check-write steps interleave can
\* each pass the cycle guard on the rows it read and both commit: a request
\* gets to its write only after its guard passed on the rows it read, its
\* commit then writes the parent it chose whatever the rows hold by then,
\* and when the chosen parent has meanwhile become a child of the moved
\* department the commit closes a parent_id cycle.
C17_ConcurrentMovesCycle ==
    [][\A p \in Procs :
         /\ (txn[p].pc = "idle" /\ txn'[p].pc = "write") =>
              MoveOutcome(depts, txn'[p].dept_id, txn'[p].new_parent_id) = "ok"
         /\ (txn[p].pc = "write" /\ txn'[p].pc = "idle") =>
              /\ ret'.op = "move" /\ ret'.ok
              /\ depts'[txn[p].dept_id].parent_id = txn[p].new_parent_id
              /\ (/\ Truthy(txn[p].new_parent_id)
                  /\ depts[txn[p].new_parent_id].parent_id = txn[p].dept_id)
                 => txn[p].dept_id \in Up(depts', txn[p].dept_id, MaxDepts,
                                          {d \in DeptIds : depts'[d].exists})]_vars

\* Both requests have returned success and two departments are each
\* other's parent.
C17_Witness ==
    /\ \A p \in Procs : txn[p].pc = "idle"
    /\ ret.op = "move" /\ ret.ok
    /\ \E A, B \in DeptIds :
         /\ A # B
         /\ depts[A].exists /\ depts[B].exists
         /\ depts[A].parent_id = B
         /\ depts[B].parent_id = A

\* Message m is stored, not deleted, and addressed to u.
InboxOf(u) ==
    {m \in MsgIds : msgs[m].exists /\ ~msgs[m].is_deleted /\ msgs[m].recipient_id = u}

\* C23: mark_all_as_read(u, t) changes exactly the non-deleted unread
\* messages of u (of type t when t is given) to read, delete_all_read(u)
\* soft-deletes exactly the non-deleted read messages of u; each returns
\* the number of messages it changed and every other message is unchanged.
C23_BulkChangesExactly ==
    [][/\ Returned("mark_all_as_read") =>
            \A hit \in {{m \in InboxOf(ret'.b) :
                           /\ msgs[m].status = "unread"
                           /\ (ret'.a \in MsgTypes => msgs[m].msg_type = ret'.a)}} :
              /\ ret'.n = Cardinality(hit)
              /\ \A m \in MsgIds :
                   IF m \in hit
                   THEN /\ msgs'[m].status = "read"
                        /\ msgs'[m].read_at = now
                        /\ msgs'[m].is_deleted = msgs[m].is_deleted
                        /\ msgs'[m].recipient_id = msgs[m].recipient_id
                        /\ msgs'[m].msg_type = msgs[m].msg_type
                   ELSE msgs'[m] = msgs[m]
       /\ Returned("delete_all_read") =>
            \A hit \in {{m \in InboxOf(ret'.b) : msgs[m].status = "read"}} :
              /\ ret'.n = Cardinality(hit)
              /\ \A m \in MsgIds :
                   IF m \in hit
                   THEN /\ msgs'[m].is_deleted
                        /\ msgs'[m].status = msgs[m].status
                        /\ msgs'[m].read_at = msgs[m].read_at
                        /\ msgs'[m].recipient_id = msgs[m].recipient_id
                   ELSE msgs'[m] = msgs[m]]_vars

\* delete_all_read has removed one read message of its caller while a read
\* message of another recipient and an unread one of the caller remain.
C23_Witness ==
    /\ ret.op = "delete_all_read" /\ ret.n = 1
    /\ \E m, k, j \in MsgIds :
         /\ msgs[m].exists /\ msgs[m].recipient_id = ret.b
         /\ msgs[m].status = "read" /\ msgs[m].is_deleted
         /\ msgs[k].exists /\ msgs[k].recipient_id # ret.b
         /\ msgs[k].status = "read" /\ ~msgs[k].is_deleted
         /\ msgs[j].exists /\ msgs[j].recipient_id = ret.b
         /\ msgs[j].status = "unread" /\ ~msgs[j].is_deleted

\* C27: a message has status "read" if and only if its read_at is set.
C27_ReadIffStamped ==
    \A m \in MsgIds :
      msgs[m].exists => (msgs[m].status = "read" <=> msgs[m].read_at # NoTime)

\* A bulk mark-read for one type has stamped a message and left a message
\* of the other type unread and unstamped.
C27_Witness ==
    /\ ret.op = "mark_all_as_read" /\ ret.a \in MsgTypes /\ ret.n = 1
    /\ \E m, k \in MsgIds :
         /\ msgs[m].exists /\ msgs[m].recipient_id = ret.b
         /\ msgs[m].status = "read" /\ msgs[m].read_at # NoTime
         /\ msgs[k].exists /\ msgs[k].recipient_id = ret.b
         /\ msgs[k].msg_type # ret.a
         /\ msgs[k].status = "unread" /\ msgs[k].read_at = NoTime

\* C28: an announcement with status "published" has a non-null
\* publish_time.
C28_PublishedHasPublishTime ==
    \A x \in AnnIds :
      (anns[x].exists /\ anns[x].status = "published")
        => anns[x].publish_time # NoTime

\* What get_unread_count would return to user u before and after a step.
CountBefore(u) == UnreadCount(anns, reads, now, u, UserDeptIds(u), UserRoleIds(u))
CountAfter(u) == UnreadCount(anns', reads', now', u, UserDeptIds(u), UserRoleIds(u))

\* get_unread_count and the total of get_user_announcements(unread_only =
\* True) agree in the same state, and both are the number of visible
\* announcements the user has no record for.
CountsAgree ==
    /\ Returned("get_unread_count") =>
         /\ ret'.n = Cardinality(UserAnnouncements(anns, reads, now, ret'.b,
                       UserDeptIds(ret'.b), UserRoleIds(ret'.b), TRUE))
         /\ ret'.n = Cardinality(UnreadFor(ret'.b))
    /\ (Returned("get_user_announcements") /\ ret'.unread) =>
         /\ ret'.n = CountBefore(ret'.b)
         /\ ret'.n = Cardinality(UnreadFor(ret'.b))

\* This step is a successful mark_as_read by a user on an announcement
\* visible to that user.
MarkedVisible ==
    /\ Returned("ann_mark_as_read") /\ ret'.ok
    /\ Current(ret'.m) /\ InAudience(ret'.m, ret'.b)

\* C30 as stated: the two counts agree, are the number of visible
\* announcements without a record of the user, and every mark_as_read of
\* the user on a visible announcement lowers the count by exactly one.
C30_CountDropsOnEveryMark ==
    [][/\ CountsAgree
       /\ MarkedVisible => CountAfter(ret'.b) = CountBefore(ret'.b) - 1]_vars

\* C30 amended: the two counts agree and are the number of visible
\* announcements without a record of the user; the user's mark_as_read on
\* a visible announcement they have no record for lowers the count by
\* exactly one, and a repeated mark_as_read leaves it unchanged.
C30_CountDropsOnFirstMark ==
    [][/\ CountsAgree
       /\ MarkedVisible =>
            CountAfter(ret'.b) = CountBefore(ret'.b)
                                 - (IF ReadsOfPair(reads, ret'.m, ret'.b) = {}
                                    THEN 1 ELSE 0)]_vars

\* A user has read one of two announcements visible to them: one is left
\* to read.
C30_Witness ==
    /\ ret.op = "ann_mark_as_read" /\ ret.ok
    /\ Len(reads) = 1
    /\ Cardinality(UnreadFor(ret.b)) = 1
    /\ Cardinality({x \in AnnIds : Current(x) /\ InAudience(x, ret.b)}) = 2

\* The parent_id stored on department d.
ParentOf(d) == depts[d].parent_id

\* C24: get_ancestors(D) returns D's ancestors immediate parent first:
\* element 0 is D's parent, each later element the parent of the one
\* before; it stops at a department whose parent_id is null or does not
\* resolve, never contains D, and is empty for a root or a missing D.
C24_AncestorsParentFirst ==
    [][Returned("get_ancestors") =>
         \A D \in {ret'.a}, chain \in {ret'.ids} :
           /\ ~Live(depts, D) => chain = <<>>
           /\ (Live(depts, D) /\ ~Truthy(ParentOf(D))) => chain = <<>>
           /\ \A i \in 1..Len(chain) :
                /\ Live(depts, chain[i])
                /\ chain[i] = ParentOf(IF i = 1 THEN D ELSE chain[i - 1])
           /\ Live(depts, D) =>
                \A last \in {IF chain = <<>> THEN D ELSE chain[Len(chain)]} :
                  ~Truthy(ParentOf(last)) \/ ~Live(depts, ParentOf(last))
           /\ D \notin SeqRange(chain)]_vars

\* The chain of a grandchild: its parent, then its grandparent.
C24_Witness ==
    /\ ret.op = "get_ancestors"
    /\ Len(ret.ids) = 2
    /\ ret.ids[1] = depts[ret.a].parent_id
    /\ ret.ids[2] = depts[ret.ids[1]].parent_id
    /\ ~Truthy(depts[ret.ids[2]].parent_id)

\* The non-deleted departments below d in the parent_id relation.
Below(d) == {x \in LiveNow : d \in Up(depts, x, MaxDepts, LiveNow)}

\* C25: get_descendants(D) is the set of non-deleted departments reachable
\* from D by following parent_id downwards.
C25_DescendantsFollowParent ==
    [][Returned("get_descendants") =>
         (Live(depts, ret'.a) => ret'.out = Below(ret'.a))]_vars

\* C26: every non-deleted department's parent_id is null or the id of an
\* existing non-deleted department.
C26_NoDanglingParent ==
    \A d \in DeptIds :
      Live(depts, d) => (depts[d].parent_id = None \/ Live(depts, depts[d].parent_id))

\* The nodes of a returned forest: what is reachable from the roots
\* through the children lists in at most k steps.
RECURSIVE Forest(_, _, _)
Forest(roots, children, k) ==
    IF k = 0 THEN roots
    ELSE LET near == Forest(roots, children, k - 1)
         IN  near \cup UNION {children[p] : p \in near \cap DOMAIN children}

\* C21: search(keyword) returns a forest holding every non-deleted
\* department whose name or code matches, with all of its ancestors, each
\* reachable from a returned root through the children lists; an empty
\* keyword returns an empty list.
C21_SearchForestComplete ==
    [][Returned("search") =>
         \A shown \in {Forest(ret'.out, ret'.res, MaxDepts)} :
           IF ret'.ids = <<>>
           THEN shown = {}
           ELSE \A d \in LiveNow :
                  (ILike(DeptName(d), ret'.ids) \/ ILike(DeptCode(d), ret'.ids))
                  => /\ d \in shown
                     /\ Up(depts, d, MaxDepts, LiveNow) \subseteq shown]_vars

\* C29: when concurrent mark_as_read calls for one announcement have all
\* finished, its read_count equals the number of its AnnouncementRead
\* records and no (announcement, user) pair has two records.
C29_ConcurrentReadsCounted ==
    (\A p \in Procs : txn[p].pc = "idle") =>
      \A x \in AnnIds :
        anns[x].exists =>
          /\ anns[x].read_count = Cardinality(ReadsOf(reads, x))
          /\ \A u \in Users : Cardinality(ReadsOfPair(reads, x, u)) <= 1

\* Two users share a username, a non-empty email or a non-empty mobile.
Shares(db, i, j) ==
    \/ db[i].username = db[j].username
    \/ db[i].email # Empty /\ db[i].email = db[j].email
    \/ db[i].mobile # Empty /\ db[i].mobile = db[j].mobile

NoSharing(db) ==
    \A i, j \in 1..Len(db) : i # j => ~Shares(db, i, j)

\* A create_user, update_user or update_user_profile request served with no
\* other request in flight.
AloneRequest ==
    /\ AllIdle
    /\ AllIdle'
    /\ steps' = steps + 1
    /\ ret'.op \in {"create_user", "update_user", "update_user_profile"}

\* C22: a user request that no other request overlaps is rejected without
\* any insert or update when it fails, and leaves no two users sharing a
\* username, a non-empty email or a non-empty mobile when none did before;
\* two overlapping create_user requests can both pass the checks.
C22_UniqueWhenNotOverlapping ==
    [][AloneRequest =>
         /\ ret'.err => users' = users
         /\ NoSharing(users) => NoSharing(users')]_vars

\* A request was rejected for a value another user holds, and two
\* overlapping requests are both past the checks with the same username.
C22_Witness ==
    /\ ret.op = "create_user"
    /\ ret.err
    /\ ret.n = 400
    /\ Len(users) > 0
    /\ \A p \in Procs : txn[p].pc = "insert"
    /\ txn[1].data.username = txn[2].data.username

====
